---- MODULE Spec2Model ----
(***************************************************************************)
(* Form builder backend: the Form and Submission collections and the       *)
(* request handlers of routes/forms.ts (forms and submissions routers).    *)
(*                                                                         *)
(* Every handler is a sequence of awaited storage operations.  One storage *)
(* operation (findById, findByIdAndUpdate, findByIdAndDelete, save) is     *)
(* atomic; other requests may run between two awaits of one handler.  A    *)
(* handler with one storage operation is one action; a handler with        *)
(* several is a request slot whose pc walks through its awaits.            *)
(*                                                                         *)
(* Dates are modelled by presence only ("date"), the storage layer is      *)
(* assumed available (no connection failures).                             *)
(***************************************************************************)
EXTENDS Integers, Sequences, FiniteSets, TLC

\* ---------------------------------------------------------------- bounds
MaxForms == 2
MaxSubs == 2
MaxReq == 2

\* rateLimiter.ts: max submissions per client and window
SubmissionRateMax == 10

FormIds == 1..MaxForms
SubIds == 1..MaxSubs
Reqs == 1..MaxReq

\* ---------------------------------------------------------------- values
Absent == "absent"      \* a key that is not present
NoDate == "none"        \* a date path without a value (undefined or null)
ADate == "date"         \* new Date()

FieldTypes == {"text", "email", "select", "checkbox", "radio", "textarea", "file"}

NameField == [id |-> "f1", type |-> "text", label |-> "Name", required |-> TRUE]
ColorField == [id |-> "f2", type |-> "select", label |-> "Color", required |-> TRUE]
BadField == [id |-> "f3", type |-> "number", label |-> "", required |-> FALSE]

Title == <<"Survey">>

\* ------------------------------------------------------------ Form model
\* FormSchema: the defaults of a new document.
FormDefaults ==
    [ title       |-> <<>>,
      fields      |-> <<>>,
      settings    |-> [submissionLimit |-> <<>>],
      status      |-> "draft",
      submissions |-> 0,
      publishedAt |-> NoDate ]

\* { ...body } applied to a document: every schema path the body holds is
\* set, paths the body does not hold keep their value, keys outside the
\* schema are dropped (strict mode).
ApplyBody(doc, body) ==
    [k \in DOMAIN doc |-> IF k \in DOMAIN body THEN body[k] ELSE doc[k]]

\* validateForm: the messages express-validator collects for a body.
ValidateForm(body) ==
    (IF "title" \notin DOMAIN body \/ Len(body.title) < 1
        THEN {"Title is required"} ELSE {})
    \cup (IF "fields" \notin DOMAIN body
        THEN {"Fields must be an array"} ELSE {})
    \cup (IF "fields" \in DOMAIN body
             /\ \E i \in 1..Len(body.fields) : body.fields[i].type \notin FieldTypes
        THEN {"Invalid field type"} ELSE {})
    \cup (IF "fields" \in DOMAIN body
             /\ \E i \in 1..Len(body.fields) : body.fields[i].label = ""
        THEN {"Field label is required"} ELSE {})
    \cup (IF "fields" \in DOMAIN body
             /\ \E i \in 1..Len(body.fields) : body.fields[i].required \notin BOOLEAN
        THEN {"Required must be a boolean"} ELSE {})
    \cup (IF "status" \in DOMAIN body /\ body.status \notin {"draft", "published"}
        THEN {"Invalid status"} ELSE {})

\* Request bodies of POST /forms and PUT /forms/:id.  The builder sends the
\* whole form it holds (FormBuilder.tsx saveFormMutation), so a body may
\* carry the status and the submissions counter it loaded earlier.
FormBodies ==
    { [title |-> Title, fields |-> <<NameField>>,
       settings |-> [submissionLimit |-> <<>>]],
      [title |-> Title, fields |-> <<NameField, ColorField>>,
       settings |-> [submissionLimit |-> <<1>>]],
      [title |-> Title, fields |-> <<NameField>>,
       settings |-> [submissionLimit |-> <<>>],
       status |-> "published", submissions |-> 1],
      [title |-> <<>>, fields |-> <<NameField>>],
      [title |-> Title, fields |-> <<BadField>>],
      [title |-> Title],
      [title |-> Title, fields |-> <<NameField>>, status |-> "archived"] }

\* ------------------------------------------------------ Submission model
\* validateSubmission: one detail per failing element of the body.
IsMongoId(id) == id >= 1

ValidateSubmission(body) ==
    (IF ~IsMongoId(body.formId)
        THEN {<<"formId", "Valid form ID is required">>} ELSE {})
    \cup (IF "fields" \notin DOMAIN body
        THEN {<<"fields", "Fields must be an array">>} ELSE {})
    \cup (IF "fields" \in DOMAIN body
        THEN { <<body.fields[i].fieldId, "Field value is required">> :
                 i \in {j \in 1..Len(body.fields) : body.fields[j].value = ""} }
        ELSE {})
    \cup (IF "fields" \in DOMAIN body
        THEN { <<"fieldId", "Field ID is required">> :
                 i \in {j \in 1..Len(body.fields) : body.fields[j].fieldId = ""} }
        ELSE {})

\* SubmissionFieldSchema: fieldId, value and fieldType are required; save()
\* throws a ValidationError when one is missing.
SubmissionSchemaOk(fields) ==
    \A i \in 1..Len(fields) :
        /\ fields[i].fieldId # ""
        /\ fields[i].value # ""
        /\ fields[i].fieldType # Absent

Ann == [fieldId |-> "f1", value |-> "Ann", fieldType |-> "text"]

SubmitFieldInputs ==
    { <<Ann>>,
      <<[fieldId |-> "f1", value |-> "", fieldType |-> "text"]>>,
      <<[fieldId |-> "f1", value |-> "", fieldType |-> "text"],
        [fieldId |-> "f2", value |-> "", fieldType |-> "select"]>>,
      <<[fieldId |-> "f1", value |-> "Ann", fieldType |-> Absent]>> }

\* formId 0 stands for a string that is no ObjectId
SubmitBodies ==
    { [formId |-> f, fields |-> fs] : f \in FormIds, fs \in SubmitFieldInputs }
    \cup { [formId |-> 0, fields |-> <<Ann>>], [formId |-> 1] }

\* express-rate-limit: the request is the (priorHits+1)-th of its client in
\* the window and is refused when that exceeds max.
RateLimited(priorHits) == priorHits + 1 > SubmissionRateMax

\* ------------------------------------------------------------------ state
VARIABLES
    forms,        \* Form collection: id -> document
    nextFormId,   \* ids are fresh: never reused after a delete
    subs,         \* Submission collection: id -> document
    nextSubId,
    reqs,         \* handlers between two awaits: slot -> request
    out,          \* the response being sent, with what its request wrote
    builder,      \* FormBuilder.tsx: the fields of the form being edited
    probe         \* a call of a function of the form renderer and its result

\* the state of the browser pages, which no request handler touches
client == <<builder, probe>>
\* the state of the backend, which no page touches but through requests
server == <<forms, nextFormId, subs, nextSubId, reqs, out>>

vars == <<forms, nextFormId, subs, nextSubId, reqs, out, builder, probe>>

\* FormBuilder.tsx useState: a new form has no fields; made counts the ids
\* generateId has handed out
NewForm == [fields |-> <<>>, made |-> 0]
NoProbe == [fn |-> "none"]

IdleReq ==
    [ kind  |-> "idle",
      pc    |-> "idle",
      id    |-> 0,          \* the form or submission the request names
      body  |-> <<>>,       \* submitted fields
      snap  |-> <<>>,       \* the document the handler holds across its
                            \* awaits and reads again (<<>>: none)
      made  |-> 0 ]         \* id of the Submission this request saved

\* res.status(code).json({success, error, details}); made and delta record
\* the writes of the request that is answered: the document it saved and
\* the counter writes <<form, d>> it made.
NoResponse ==
    [op |-> "none", id |-> 0, code |-> 0, error |-> "", details |-> {},
     made |-> 0, delta |-> {}]
Resp(op, id, code, error) ==
    [NoResponse EXCEPT !.op = op, !.id = id, !.code = code, !.error = error]

Init ==
    /\ forms = <<>>
    /\ nextFormId = 1
    /\ subs = <<>>
    /\ nextSubId = 1
    /\ reqs = [r \in Reqs |-> IdleReq]
    /\ out = NoResponse
    /\ builder = NewForm
    /\ probe = NoProbe

Exists(id) == id \in DOMAIN forms

\* a function with one more / one less key
Put(f, k, v) == [x \in DOMAIN f \cup {k} |-> IF x = k THEN v ELSE f[x]]
Drop(f, k) == [x \in DOMAIN f \ {k} |-> f[x]]

\* the counter writes between two states of the Form collection
CounterWrites(old, new) ==
    { <<f, new[f].submissions - old[f].submissions>> :
        f \in {g \in DOMAIN old \cap DOMAIN new :
                 new[g].submissions # old[g].submissions} }

\* A handler step runs when no response is waiting to be sent (sending
\* touches nothing else), and a new request takes the lowest free slot
\* (slots have no identity of their own).
Ready == out = NoResponse
Free(r) == reqs[r].pc = "idle" /\ \A q \in Reqs : q < r => reqs[q].pc # "idle"

\* ------------------------------------------------- form handlers (forms.ts)
\* POST /forms: new Form({...req.body}).save()
CreateForm ==
    /\ Ready
    /\ \E body \in FormBodies :
        IF ValidateForm(body) # {}
        THEN /\ out' = [Resp("create", 0, 400, "Validation failed")
                            EXCEPT !.details = ValidateForm(body)]
             /\ UNCHANGED <<forms, nextFormId, subs, nextSubId, reqs>>
        ELSE /\ nextFormId <= MaxForms
             /\ forms' = Put(forms, nextFormId, ApplyBody(FormDefaults, body))
             /\ nextFormId' = nextFormId + 1
             /\ out' = Resp("create", nextFormId, 201, "")
             /\ UNCHANGED <<subs, nextSubId, reqs>>
    /\ UNCHANGED client

\* PUT /forms/:id: findByIdAndUpdate(id, {...req.body, updatedAt})
UpdateForm(id) ==
    /\ Ready
    /\ \E body \in FormBodies :
        /\ forms' = IF ValidateForm(body) = {} /\ Exists(id)
                    THEN [forms EXCEPT ![id] = ApplyBody(@, body)]
                    ELSE forms
        /\ out' = IF ValidateForm(body) # {}
                  THEN [Resp("update", id, 400, "Validation failed")
                            EXCEPT !.details = ValidateForm(body)]
                  ELSE IF Exists(id) THEN Resp("update", id, 200, "")
                  ELSE Resp("update", id, 404, "Form not found")
    /\ UNCHANGED <<nextFormId, subs, nextSubId, reqs>>
    /\ UNCHANGED client

\* DELETE /forms/:id: findByIdAndDelete(id); Submission is not touched
DeleteForm(id) ==
    /\ Ready
    /\ forms' = IF Exists(id) THEN Drop(forms, id) ELSE forms
    /\ out' = IF Exists(id) THEN Resp("delete", id, 200, "")
              ELSE Resp("delete", id, 404, "Form not found")
    /\ UNCHANGED <<nextFormId, subs, nextSubId, reqs>>
    /\ UNCHANGED client

\* a publish whose update document also resets the counter
PublishUpdateResetsCounter(doc) ==
    [doc EXCEPT !.status = "published", !.publishedAt = ADate, !.submissions = 0]

\* the update document of PATCH /forms/:id/publish
PublishUpdate(doc) ==
    [doc EXCEPT !.status = "published", !.publishedAt = ADate]

PublishForm(id) ==
    /\ Ready
    /\ forms' = IF Exists(id) THEN [forms EXCEPT ![id] = PublishUpdate(@)] ELSE forms
    /\ out' = IF Exists(id) THEN Resp("publish", id, 200, "")
              ELSE Resp("publish", id, 404, "Form not found")
    /\ UNCHANGED <<nextFormId, subs, nextSubId, reqs>>
    /\ UNCHANGED client

\* the update document of PATCH /forms/:id/unpublish is
\* { status: 'draft', publishedAt: undefined, updatedAt }.  What an undefined
\* value in an update does is decided by the Mongoose release the build
\* resolves: the key is stripped from the update (6 and later: the stored
\* publishedAt stays) or sent as null (5.x).  Both outcomes are kept.
UnpublishUpdate(doc) ==
    { [doc EXCEPT !.status = "draft"],
      [doc EXCEPT !.status = "draft", !.publishedAt = NoDate] }

UnpublishForm(id) ==
    /\ Ready
    /\ IF Exists(id)
       THEN \E d \in UnpublishUpdate(forms[id]) : forms' = [forms EXCEPT ![id] = d]
       ELSE forms' = forms
    /\ out' = IF Exists(id) THEN Resp("unpublish", id, 200, "")
              ELSE Resp("unpublish", id, 404, "Form not found")
    /\ UNCHANGED <<nextFormId, subs, nextSubId, reqs>>
    /\ UNCHANGED client

\* a duplicate that copies the original's counter
DuplicateOfKeepsCounter(doc) ==
    [doc EXCEPT !.title = Append(@, "(Copy)"), !.status = "draft"]

\* POST /forms/:id/duplicate: the document new Form({...}) builds from the
\* original as soon as findById has returned it
DuplicateOf(doc) ==
    [doc EXCEPT !.title = Append(@, "(Copy)"), !.status = "draft", !.submissions = 0]

DuplicateFind(r) ==
    /\ Ready
    /\ Free(r)
    /\ \E id \in FormIds :
        IF Exists(id)
        THEN /\ reqs' = [reqs EXCEPT ![r] =
                    [IdleReq EXCEPT !.kind = "duplicate", !.pc = "dupsave", !.id = id,
                                    !.snap = <<DuplicateOf(forms[id])>>]]
             /\ out' = out
        ELSE /\ out' = Resp("duplicate", id, 404, "Form not found")
             /\ reqs' = reqs
    /\ UNCHANGED <<forms, nextFormId, subs, nextSubId>>
    /\ UNCHANGED client

\* duplicatedForm.save(), then 201
DuplicateSave(r) ==
    /\ Ready
    /\ reqs[r].pc = "dupsave"
    /\ nextFormId <= MaxForms
    /\ forms' = Put(forms, nextFormId, reqs[r].snap[1])
    /\ nextFormId' = nextFormId + 1
    /\ reqs' = [reqs EXCEPT ![r] = IdleReq]
    /\ out' = [Resp("duplicate", reqs[r].id, 201, "") EXCEPT !.made = nextFormId]
    /\ UNCHANGED <<subs, nextSubId>>
    /\ UNCHANGED client

\* ------------------------------------- submission handlers (forms.ts:218-356)
\* a counter update that writes { submissions: d } in place of the $inc
IncSubmissionsSet(fs, id, d) ==
    IF id \in DOMAIN fs THEN [fs EXCEPT ![id].submissions = d] ELSE fs

\* Form.findByIdAndUpdate(formId, { $inc: { submissions: d } }): an atomic
\* delta on the stored counter; a form that is gone matches nothing.
IncSubmissions(fs, id, d) ==
    IF id \in DOMAIN fs THEN [fs EXCEPT ![id].submissions = @ + d] ELSE fs

\* a lookup without the check of form.status
SubmitLookupResultNoStatus(fs, body, priorHits) ==
    IF RateLimited(priorHits)
    THEN Resp("submit", body.formId, 429, "Too many form submissions")
    ELSE IF ValidateSubmission(body) # {}
    THEN [Resp("submit", body.formId, 400, "Validation failed")
              EXCEPT !.details = ValidateSubmission(body)]
    ELSE IF body.formId \notin DOMAIN fs
    THEN Resp("submit", body.formId, 404, "Form not found")
    ELSE NoResponse

\* POST /submissions up to the end of its first await: rate limiter,
\* validateSubmission, Form.findById and the two checks of its result.
\* "" is no early answer: the handler goes on to save the Submission.
SubmitLookupResult(fs, body, priorHits) ==
    IF RateLimited(priorHits)
    THEN Resp("submit", body.formId, 429, "Too many form submissions")
    ELSE IF ValidateSubmission(body) # {}
    THEN [Resp("submit", body.formId, 400, "Validation failed")
              EXCEPT !.details = ValidateSubmission(body)]
    ELSE IF body.formId \notin DOMAIN fs
    THEN Resp("submit", body.formId, 404, "Form not found")
    ELSE IF fs[body.formId].status # "published"
    THEN Resp("submit", body.formId, 400, "Form is not published")
    ELSE NoResponse

SubmitArrive(r, body, priorHits) ==
    /\ Ready
    /\ Free(r)
    /\ LET early == SubmitLookupResult(forms, body, priorHits) IN
       IF early # NoResponse
       THEN out' = early /\ reqs' = reqs
       ELSE /\ reqs' = [reqs EXCEPT ![r] =
                   [IdleReq EXCEPT !.kind = "submit", !.pc = "save",
                                   !.id = body.formId, !.body = body.fields]]
            /\ out' = out
    /\ UNCHANGED <<forms, nextFormId, subs, nextSubId>>
    /\ UNCHANGED client

SubmitLookup(r) ==
    \E body \in SubmitBodies, priorHits \in {0, SubmissionRateMax} :
        SubmitArrive(r, body, priorHits)

\* a save that stores the document before the schema is checked and
\* answers a failed check with 400
SubmitSaveThenValidate(r) ==
    /\ Ready
    /\ reqs[r].pc = "save"
    /\ nextSubId <= MaxSubs
    /\ subs' = Put(subs, nextSubId, [formId |-> reqs[r].id, fields |-> reqs[r].body])
    /\ nextSubId' = nextSubId + 1
    /\ IF SubmissionSchemaOk(reqs[r].body)
       THEN /\ reqs' = [reqs EXCEPT ![r].pc = "inc", ![r].made = nextSubId]
            /\ out' = out
       ELSE /\ reqs' = [reqs EXCEPT ![r] = IdleReq]
            /\ out' = [Resp("submit", reqs[r].id, 400, "Validation failed")
                          EXCEPT !.made = nextSubId]
    /\ UNCHANGED <<forms, nextFormId>>
    /\ UNCHANGED client

\* new Submission({formId, fields, metadata}).save(); a ValidationError of
\* the schema is caught and answered with 500
SubmitSave(r) ==
    /\ Ready
    /\ reqs[r].pc = "save"
    /\ IF SubmissionSchemaOk(reqs[r].body)
       THEN /\ nextSubId <= MaxSubs
            /\ subs' = Put(subs, nextSubId,
                           [formId |-> reqs[r].id, fields |-> reqs[r].body])
            /\ nextSubId' = nextSubId + 1
            /\ reqs' = [reqs EXCEPT ![r].pc = "inc", ![r].made = nextSubId]
            /\ out' = out
       ELSE /\ reqs' = [reqs EXCEPT ![r] = IdleReq]
            /\ out' = Resp("submit", reqs[r].id, 500, "Failed to create submission")
            /\ UNCHANGED <<subs, nextSubId>>
    /\ UNCHANGED <<forms, nextFormId>>
    /\ UNCHANGED client

\* the counter update of an accepted submission, then 201
SubmitInc(r) ==
    /\ Ready
    /\ reqs[r].pc = "inc"
    /\ forms' = IncSubmissions(forms, reqs[r].id, 1)
    /\ reqs' = [reqs EXCEPT ![r] = IdleReq]
    /\ out' = [Resp("submit", reqs[r].id, 201, "")
                  EXCEPT !.made = reqs[r].made, !.delta = CounterWrites(forms, forms')]
    /\ UNCHANGED <<nextFormId, subs, nextSubId>>
    /\ UNCHANGED client

\* a delete that reads the submission with findById and removes nothing
DeleteSubmissionFindOnly(r) ==
    /\ Ready
    /\ Free(r)
    /\ \E s \in SubIds :
        IF s \in DOMAIN subs
        THEN /\ reqs' = [reqs EXCEPT ![r] =
                    [IdleReq EXCEPT !.kind = "deleteSubmission", !.pc = "dec", !.id = s,
                                    !.snap = <<subs[s]>>]]
             /\ UNCHANGED <<subs, out>>
        ELSE /\ out' = Resp("deleteSubmission", s, 404, "Submission not found")
             /\ UNCHANGED <<subs, reqs>>
    /\ UNCHANGED <<forms, nextFormId, nextSubId>>
    /\ UNCHANGED client

\* DELETE /submissions/:id: Submission.findByIdAndDelete(id)
DeleteSubmissionFind(r) ==
    /\ Ready
    /\ Free(r)
    /\ \E s \in SubIds :
        IF s \in DOMAIN subs
        THEN /\ subs' = Drop(subs, s)
             /\ reqs' = [reqs EXCEPT ![r] =
                    [IdleReq EXCEPT !.kind = "deleteSubmission", !.pc = "dec", !.id = s,
                                    !.snap = <<subs[s]>>]]
             /\ out' = out
        ELSE /\ out' = Resp("deleteSubmission", s, 404, "Submission not found")
             /\ UNCHANGED <<subs, reqs>>
    /\ UNCHANGED <<forms, nextFormId, nextSubId>>
    /\ UNCHANGED client

\* the counter update of a deleted submission, then 200
DeleteSubmissionDec(r) ==
    /\ Ready
    /\ reqs[r].pc = "dec"
    /\ forms' = IncSubmissions(forms, reqs[r].snap[1].formId, -1)
    /\ reqs' = [reqs EXCEPT ![r] = IdleReq]
    /\ out' = [Resp("deleteSubmission", reqs[r].id, 200, "")
                  EXCEPT !.delta = CounterWrites(forms, forms')]
    /\ UNCHANGED <<nextFormId, subs, nextSubId>>
    /\ UNCHANGED client

\* the response has left the server
Respond ==
    /\ out # NoResponse
    /\ out' = NoResponse
    /\ UNCHANGED <<forms, nextFormId, subs, nextSubId, reqs>>
    /\ UNCHANGED client

\* ---------------------------------------------------------- specifications
\* The form handlers on a store that starts empty.
Next ==
    \/ CreateForm
    \/ \E id \in FormIds : UpdateForm(id)
    \/ \E id \in FormIds : DeleteForm(id)
    \/ \E id \in FormIds : PublishForm(id)
    \/ \E id \in FormIds : UnpublishForm(id)
    \/ \E r \in Reqs : DuplicateFind(r)
    \/ \E r \in Reqs : DuplicateSave(r)
    \/ Respond

Spec == Init /\ [][Next]_vars

\* The submission handlers, with the form handlers that change what they
\* read (status, existence) running between their awaits.  The store holds
\* forms the builder has saved: POST /forms with the second body of
\* FormBodies and PATCH publish, or POST /forms with the first body.
PublishedForm ==
    PublishUpdate(ApplyBody(FormDefaults,
        [title |-> Title, fields |-> <<NameField, ColorField>>,
         settings |-> [submissionLimit |-> <<1>>]]))
DraftForm ==
    ApplyBody(FormDefaults,
        [title |-> Title, fields |-> <<NameField>>,
         settings |-> [submissionLimit |-> <<>>]])

InitIngest ==
    /\ forms \in [FormIds -> {PublishedForm, DraftForm}]
    /\ nextFormId = MaxForms + 1
    /\ subs = <<>>
    /\ nextSubId = 1
    /\ reqs = [r \in Reqs |-> IdleReq]
    /\ out = NoResponse
    /\ builder = NewForm
    /\ probe = NoProbe

NextIngest ==
    \/ \E r \in Reqs : SubmitLookup(r)
    \/ \E r \in Reqs : SubmitSave(r)
    \/ \E r \in Reqs : SubmitInc(r)
    \/ \E r \in Reqs : DeleteSubmissionFind(r)
    \/ \E r \in Reqs : DeleteSubmissionDec(r)
    \/ \E id \in FormIds : PublishForm(id)
    \/ \E id \in FormIds : UnpublishForm(id)
    \/ \E id \in FormIds : DeleteForm(id)
    \/ Respond

SpecIngest == InitIngest /\ [][NextIngest]_vars

\* Submit requests alone, running concurrently.
NextSubmit ==
    \/ \E r \in Reqs : SubmitLookup(r)
    \/ \E r \in Reqs : SubmitSave(r)
    \/ \E r \in Reqs : SubmitInc(r)
    \/ Respond

SpecSubmit == InitIngest /\ [][NextSubmit]_vars

\* ------------------------------------------- form builder (FormBuilder.tsx)
\* The builder keeps the form in React state; every handler below is one
\* event, run on the state the previous event left.
MaxFields == 3          \* fields on the canvas
MaxFieldIds == 4        \* ids handed out in one editing session

BuilderTypes == {"text", "select"}

\* generateId (lib/utils): an id no field of the form has
generateId(b) == b.made + 1

\* indices of a JavaScript array are 0-based
At(seq, index) == seq[index + 1]

\* Array.prototype.filter
RECURSIVE Filter(_, _)
Filter(seq, keep) ==
    IF seq = <<>> THEN <<>>
    ELSE IF Head(seq).id \in keep
         THEN <<Head(seq)>> \o Filter(Tail(seq), keep)
         ELSE Filter(Tail(seq), keep)

\* fields.splice(index, 1) and fields.splice(index, 0, item)
SpliceOut(seq, index) ==
    SubSeq(seq, 1, index) \o SubSeq(seq, index + 2, Len(seq))
SpliceIn(seq, index, item) ==
    SubSeq(seq, 1, index) \o <<item>> \o SubSeq(seq, index + 1, Len(seq))

handleAddField(fieldType) ==
    /\ Len(builder.fields) < MaxFields
    /\ builder.made < MaxFieldIds
    /\ LET newField == [ id    |-> generateId(builder),
                         type  |-> fieldType,
                         label |-> <<"New", fieldType, "Field">>,
                         order |-> Len(builder.fields) ] IN
       builder' = [fields |-> Append(builder.fields, newField),
                   made   |-> builder.made + 1]
    /\ UNCHANGED <<server, probe>>

handleDeleteField(fieldId) ==
    /\ \E i \in 1..Len(builder.fields) : builder.fields[i].id = fieldId
    /\ builder' = [builder EXCEPT !.fields =
            Filter(@, {builder.fields[i].id : i \in 1..Len(builder.fields)} \ {fieldId})]
    /\ UNCHANGED <<server, probe>>

handleDuplicateField(field) ==
    /\ Len(builder.fields) < MaxFields
    /\ builder.made < MaxFieldIds
    /\ LET duplicatedField == [field EXCEPT !.id = generateId(builder),
                                            !.label = Append(@, "(Copy)"),
                                            !.order = Len(builder.fields)] IN
       builder' = [fields |-> Append(builder.fields, duplicatedField),
                   made   |-> builder.made + 1]
    /\ UNCHANGED <<server, probe>>

\* react-beautiful-dnd reports source.index and destination.index; a drop
\* outside the list has no destination (-1 here) and the handler returns
handleDragEnd(source, destination) ==
    /\ destination # -1
    /\ LET reorderedField == At(builder.fields, source)
           fields == SpliceIn(SpliceOut(builder.fields, source), destination,
                              reorderedField)
           updatedFields == [i \in 1..Len(fields) |->
                                [fields[i] EXCEPT !.order = i - 1]] IN
       builder' = [builder EXCEPT !.fields = updatedFields]
    /\ UNCHANGED <<server, probe>>

NextBuilder ==
    \/ \E fieldType \in BuilderTypes : handleAddField(fieldType)
    \/ \E i \in 1..Len(builder.fields) : handleDeleteField(builder.fields[i].id)
    \/ \E i \in 1..Len(builder.fields) : handleDuplicateField(builder.fields[i])
    \/ \E source \in 0..(Len(builder.fields) - 1),
          destination \in -1..(Len(builder.fields) - 1) :
          handleDragEnd(source, destination)

SpecBuilder == Init /\ [][NextBuilder]_vars

\* ------------------------------- form renderer (PublicForm.tsx, FormPreview)
MaxStepFields == 7      \* fields of a rendered form
MaxSteps == 4           \* entries of settings.steps

\* Math.ceil(a / b) and Math.floor(a / b) for a >= 0, b > 0
Floor(a, b) == a \div b
Ceil(a, b) == (a + b - 1) \div b

Min(a, b) == IF a <= b THEN a ELSE b

\* Array.prototype.slice with an end that includes the element at end
SliceInclusive(seq, start, end) ==
    SubSeq(seq, Min(start, Len(seq)) + 1, Min(end + 1, Len(seq)))

\* Array.prototype.slice(start, end) for 0 <= start <= end: the elements at
\* the 0-based indices start..end-1 that exist
Slice(seq, start, end) ==
    SubSeq(seq, Min(start, Len(seq)) + 1, Min(end, Len(seq)))

\* the forms the renderer is given: n optional fields, settings.isMultiStep
\* and settings.steps
StepForms ==
    { [ fields      |-> [i \in 1..n |-> [id |-> i]],
        isMultiStep |-> m,
        steps       |-> [i \in 1..k |-> i] ] :
        n \in 0..MaxStepFields, k \in 0..MaxSteps, m \in BOOLEAN }

\* const steps / const isMultiStep of the component
StepsOf(form) == IF form.isMultiStep THEN form.steps ELSE <<>>
IsMultiStep(form) == form.isMultiStep /\ Len(StepsOf(form)) > 0

getFieldsForStep(form, stepIndex) ==
    IF ~IsMultiStep(form) THEN form.fields
    ELSE LET fieldsPerStep == Ceil(Len(form.fields), Len(StepsOf(form)))
             startIndex == stepIndex * fieldsPerStep
             endIndex == startIndex + fieldsPerStep IN
         Slice(form.fields, startIndex, endIndex)

\* the page as rendered for a step: currentFields = getFieldsForStep(currentStep)
Render(form, step) ==
    [ fn |-> "getFieldsForStep", form |-> form, currentStep |-> step,
      currentFields |-> getFieldsForStep(form, step) ]

InitSteps ==
    /\ forms = <<>>
    /\ nextFormId = 1
    /\ subs = <<>>
    /\ nextSubId = 1
    /\ reqs = [r \in Reqs |-> IdleReq]
    /\ out = NoResponse
    /\ builder = NewForm
    /\ \E form \in StepForms : probe = Render(form, 0)

\* handleNext behind the Next button (shown while currentStep is not the
\* last step); the fields are optional and nothing has been entered, so
\* validateStep finds no error
handleNext ==
    /\ IsMultiStep(probe.form)
    /\ probe.currentStep < Len(StepsOf(probe.form)) - 1
    /\ probe' = Render(probe.form, probe.currentStep + 1)
    /\ UNCHANGED <<server, builder>>

\* handlePrevious behind the Previous button (shown when currentStep > 0)
handlePrevious ==
    /\ IsMultiStep(probe.form)
    /\ probe.currentStep > 0
    /\ probe' = Render(probe.form, probe.currentStep - 1)
    /\ UNCHANGED <<server, builder>>

NextSteps == handleNext \/ handlePrevious

SpecSteps == InitSteps /\ [][NextSteps]_vars

\* ----------------------------------------- validateField (PublicForm.tsx)
\* JavaScript values, tagged with their type.  The elements of an array are
\* strings.  File is the object an <input type="file"> hands over.
Undefined == [t |-> "undefined"]
Null == [t |-> "null"]
Str(s) == [t |-> "string", s |-> s]
Num(n) == [t |-> "number", n |-> n]
Bool(b) == [t |-> "boolean", b |-> b]
Arr(a) == [t |-> "array", a |-> a]
File == [t |-> "file"]

\* the characters of the strings in use
Chars(s) ==
    CASE s = "" -> <<>>
      [] s = "Red" -> <<"R", "e", "d">>
      [] s = "Blue" -> <<"B", "l", "u", "e">>
      [] s = "Green" -> <<"G", "r", "e", "e", "n">>
      [] s = "a@b.c" -> <<"a", "@", "b", ".", "c">>
      [] s = "a b" -> <<"a", " ", "b">>
      [] s = "Name" -> <<"N", "a", "m", "e">>
      [] s = "Color" -> <<"C", "o", "l", "o", "r">>
      [] s = "Alias" -> <<"A", "l", "i", "a", "s">>
      [] s = "Name, first" -> <<"N", "a", "m", "e", ",", " ", "f", "i", "r", "s", "t">>
      [] s = "f1" -> <<"f", "1">>
      [] s = "f2" -> <<"f", "2">>
      [] s = "gone" -> <<"g", "o", "n", "e">>
      [] s = "Submission ID" -> <<"S", "u", "b", "m", "i", "s", "s", "i", "o", "n", " ", "I", "D">>
      [] s = "Submitted At" -> <<"S", "u", "b", "m", "i", "t", "t", "e", "d", " ", "A", "t">>
      [] s = "IP Address" -> <<"I", "P", " ", "A", "d", "d", "r", "e", "s", "s">>
      [] s = "User Agent" -> <<"U", "s", "e", "r", " ", "A", "g", "e", "n", "t">>
      [] s = "Status" -> <<"S", "t", "a", "t", "u", "s">>
      [] s = "pending" -> <<"p", "e", "n", "d", "i", "n", "g">>
      [] s = "::1" -> <<":", ":", "1">>
      [] s = "Smith, \"Jr.\"" -> <<"S", "m", "i", "t", "h", ",", " ", "\"", "J", "r", ".", "\"">>
      [] s = "a\nb" -> <<"a", "\n", "b">>

\* Boolean(value)
Truthy(v) ==
    CASE v.t = "undefined" -> FALSE
      [] v.t = "null" -> FALSE
      [] v.t = "string" -> v.s # ""
      [] v.t = "number" -> v.n # 0
      [] v.t = "boolean" -> v.b
      [] v.t = "array" -> TRUE
      [] v.t = "file" -> TRUE

\* value === ''
IsEmptyString(v) == v.t = "string" /\ v.s = ""

\* elements.join(',')
RECURSIVE Join(_)
Join(a) ==
    IF a = <<>> THEN <<>>
    ELSE IF Len(a) = 1 THEN Chars(a[1])
    ELSE Chars(a[1]) \o <<",">> \o Join(Tail(a))

\* String(value), as RegExp.prototype.test converts its argument
ToStringChars(v) ==
    CASE v.t = "undefined" -> <<"u", "n", "d", "e", "f", "i", "n", "e", "d">>
      [] v.t = "null" -> <<"n", "u", "l", "l">>
      [] v.t = "string" -> Chars(v.s)
      [] v.t = "number" -> IF v.n = 0 THEN <<"0">> ELSE <<"1">>
      [] v.t = "boolean" -> IF v.b THEN <<"t", "r", "u", "e">>
                            ELSE <<"f", "a", "l", "s", "e">>
      [] v.t = "array" -> Join(v.a)
      [] v.t = "file" -> <<"[", "o", "b", "j", "e", "c", "t", " ", "F", "i", "l", "e", "]">>

\* [^\s@]+ matches cs
Plain(cs) == cs # <<>> /\ \A i \in 1..Len(cs) : cs[i] \notin {" ", "@"}

\* /^[^\s@]+@[^\s@]+\.[^\s@]+$/.test(value)
emailRegexTest(v) ==
    LET cs == ToStringChars(v) IN
    \E a \in 1..Len(cs), d \in 1..Len(cs) :
        /\ cs[a] = "@" /\ cs[d] = "." /\ a < d
        /\ Plain(SubSeq(cs, 1, a - 1))
        /\ Plain(SubSeq(cs, a + 1, d - 1))
        /\ Plain(SubSeq(cs, d + 1, Len(cs)))

\* value.length: <<n>>, or <<>> for a value without that property
LengthOf(v) ==
    CASE v.t = "string" -> <<Len(Chars(v.s))>>
      [] v.t = "array" -> <<Len(v.a)>>
      [] OTHER -> <<>>

\* field.options.includes(value): options hold strings, compared with ===
Includes(options, v) ==
    v.t = "string" /\ \E i \in 1..Len(options) : options[i] = v.s

\* Array.isArray(value)
IsArray(v) == v.t = "array"

\* the message a check returns; '' is no error
NoError == [label |-> "", msg |-> "", n |-> 0]
Err(field, msg, n) == [label |-> field.label, msg |-> msg, n |-> n]

\* An optional attribute of a field is <<>> when undefined and <<x>> when
\* it is x; validation.minLength and maxLength are 0 when not set (0 is
\* falsy in the guards that read them).
validateField(field, value) ==
    IF field.required /\ (~Truthy(value) \/ IsEmptyString(value))
    THEN Err(field, "is required", 0)
    ELSE IF ~(Truthy(value) /\ ~IsEmptyString(value)) THEN NoError
    ELSE CASE field.type = "email" ->
                IF ~emailRegexTest(value)
                THEN Err(field, "must be a valid email", 0) ELSE NoError
           [] field.type \in {"text", "textarea"} ->
                IF /\ field.validation.minLength # 0
                   /\ LengthOf(value) # <<>>
                   /\ LengthOf(value)[1] < field.validation.minLength
                THEN Err(field, "must be at least _ characters",
                         field.validation.minLength)
                ELSE IF /\ field.validation.maxLength # 0
                        /\ LengthOf(value) # <<>>
                        /\ LengthOf(value)[1] > field.validation.maxLength
                THEN Err(field, "must be less than _ characters",
                         field.validation.maxLength)
                ELSE NoError
           [] field.type \in {"select", "radio"} ->
                IF field.options # <<>> /\ ~Includes(field.options[1], value)
                THEN Err(field, "has an invalid option selected", 0)
                ELSE NoError
           [] field.type = "checkbox" ->
                IF /\ IsArray(value)
                   /\ field.options # <<>>
                   /\ \E i \in 1..Len(value.a) :
                        ~Includes(field.options[1], Str(value.a[i]))
                THEN Err(field, "has an invalid option selected", 0)
                ELSE NoError
           [] OTHER -> NoError

\* the field definitions and the values validateField is called with
ProbeFields ==
    { [ id |-> "f1", type |-> ty, label |-> "Q", required |-> rq,
        options |-> op, validation |-> va ] :
        ty \in FieldTypes, rq \in BOOLEAN,
        op \in {<<>>, <<<<"Red", "Blue">>>>},
        va \in {[minLength |-> 0, maxLength |-> 0],
                [minLength |-> 4, maxLength |-> 4]} }

ProbeValues ==
    { Undefined, Null, File,
      Str(""), Str("Red"), Str("Blue"), Str("Green"), Str("a@b.c"), Str("a b"),
      Num(0), Num(1), Bool(FALSE), Bool(TRUE),
      Arr(<<>>), Arr(<<"Red">>), Arr(<<"Green">>), Arr(<<"Red", "Blue">>),
      Arr(<<"Red", "Green">>), Arr(<<"Green", "Red">>), Arr(<<"a@b.c">>) }

\* formData[fieldId], undefined for a field nothing was entered for
ValueOf(formData, fieldId) ==
    IF fieldId \in DOMAIN formData THEN formData[fieldId] ELSE Undefined

\* the page of a one-step form: formData and errors are keyed by field id;
\* checked says that errors is what validateStep made of this formData;
\* sent is <<body>> once the page has posted a submission
Page(form, formData, errors, checked, sent) ==
    [ fn |-> "validateField", form |-> form, formData |-> formData,
      errors |-> errors, checked |-> checked, sent |-> sent ]

InitValidate ==
    /\ forms = <<>>
    /\ nextFormId = 1
    /\ subs = <<>>
    /\ nextSubId = 1
    /\ reqs = [r \in Reqs |-> IdleReq]
    /\ out = NoResponse
    /\ builder = NewForm
    /\ \E field \in ProbeFields :
          probe = Page([fields |-> <<field>>], <<>>, <<>>, FALSE, <<>>)

handleInputChange(fieldId, value) ==
    /\ probe' = Page(probe.form,
                     Put(probe.formData, fieldId, value),
                     IF fieldId \in DOMAIN probe.errors /\ probe.errors[fieldId] # NoError
                     THEN Put(probe.errors, fieldId, NoError)
                     ELSE probe.errors,
                     FALSE, probe.sent)
    /\ UNCHANGED <<server, builder>>

\* newErrors of validateStep: the errors of the fields shown, keyed by
\* field id
StepErrors(currentFields, formData) ==
    LET failing == {i \in 1..Len(currentFields) :
                      validateField(currentFields[i],
                          ValueOf(formData, currentFields[i].id)) # NoError} IN
    [id \in {currentFields[i].id : i \in failing} |->
        LET i == CHOOSE j \in failing : currentFields[j].id = id IN
        validateField(currentFields[i], ValueOf(formData, id))]

validateStep ==
    /\ probe' = Page(probe.form, probe.formData,
                     StepErrors(probe.form.fields, probe.formData),
                     TRUE, probe.sent)
    /\ UNCHANGED <<server, builder>>

\* What body('fields.*.value').notEmpty() tests for a value that went
\* through JSON: undefined (the key is dropped) and null count as '', an
\* object is '[object Object]'.  For an array the element strings are
\* tested; an empty array is tested as '' by the express-validator releases
\* that stringify the array and not tested at all by those that test each
\* element ('[]' stands for that outcome).
NotEmptyViews(v) ==
    CASE v.t = "undefined" -> {""}
      [] v.t = "null" -> {""}
      [] v.t = "string" -> {v.s}
      [] v.t = "number" -> {IF v.n = 0 THEN "0" ELSE "1"}
      [] v.t = "boolean" -> {IF v.b THEN "true" ELSE "false"}
      [] v.t = "file" -> {"[object Object]"}
      [] v.t = "array" -> IF v.a = <<>> THEN {"", "[]"} ELSE {v.a[1]}

\* submissionFields of handleSubmit: one entry per key of formData, with
\* the type of the field of that id ('text' when the form has none), as the
\* server may see them
RECURSIVE submissionFields(_, _)
submissionFields(fields, formData) ==
    IF fields = <<>> THEN {<<>>}
    ELSE IF Head(fields).id \notin DOMAIN formData
         THEN submissionFields(Tail(fields), formData)
         ELSE { <<[fieldId |-> Head(fields).id, value |-> w,
                   fieldType |-> Head(fields).type]>> \o rest :
                  w \in NotEmptyViews(formData[Head(fields).id]),
                  rest \in submissionFields(Tail(fields), formData) }

\* the bodies handleSubmit posts for the form with id formId
SubmissionOf(formId, form, formData) ==
    { [formId |-> formId, fields |-> fs] : fs \in submissionFields(form.fields, formData) }

\* handleSubmit: nothing is sent when validateStep reports an error
handleSubmit ==
    /\ LET newErrors == StepErrors(probe.form.fields, probe.formData) IN
       IF newErrors # <<>>
       THEN probe' = Page(probe.form, probe.formData, newErrors, TRUE, probe.sent)
       ELSE \E body \in SubmissionOf(1, probe.form, probe.formData) :
               probe' = Page(probe.form, probe.formData, newErrors, TRUE, <<body>>)
    /\ UNCHANGED <<server, builder>>

NextValidate ==
    \/ \E value \in ProbeValues :
          handleInputChange(probe.form.fields[1].id, value)
    \/ validateStep
    \/ handleSubmit

SpecValidate == InitValidate /\ [][NextValidate]_vars

\* ------------------------------------- form analytics (routes/analytics.ts)
\* Time is counted in hours since the epoch: a Date is its getTime() in
\* hours, and a calendar day has DayHours of them.
DayHours == 24

\* the day of the request (new Date()), counted in days since the epoch
Today == 400

\* req.query.period; "all" stands for any value the switch does not name
Periods == {"7d", "30d", "90d", "1y", "all"}

\* switch (period): the number of days before now at which startDate lies
PeriodDays(period) ==
    CASE period = "7d" -> 7
      [] period = "30d" -> 30
      [] period = "90d" -> 90
      [] period = "1y" -> 365
      [] OTHER -> 30

\* The time zone of the server process: from the instant `at` on, local
\* time is UTC + delta hours, and UTC before it (delta 0: no daylight
\* saving time; -1: clocks set back; 1: clocks set forward).
TimeZones ==
    { [at |-> (Today - 2) * DayHours + 2, delta |-> d] : d \in {-1, 0, 1} }
Offset(zone, t) == IF t >= zone.at THEN zone.delta ELSE 0

\* date.toISOString().split('T')[0]: the UTC calendar day of a Date
toISODate(t) == t \div DayHours

\* currentDate.setDate(currentDate.getDate() + 1): the same wall-clock time
\* on the next local calendar day; a wall-clock time the zone skips is read
\* with the offset before the transition (ECMA-262 UTC(t))
setNextDate(zone, t) ==
    LET r == t + DayHours
        u == r - (Offset(zone, r) - Offset(zone, t))
    IN IF Offset(zone, u) = Offset(zone, r) THEN u ELSE r

\* A Map is the sequence of its <<key, value>> entries in insertion order.
MapHas(m, k) == \E i \in 1..Len(m) : m[i][1] = k
MapGet(m, k) == m[CHOOSE i \in 1..Len(m) : m[i][1] = k][2]
MapSet(m, k, v) ==
    IF MapHas(m, k)
    THEN [i \in 1..Len(m) |-> IF m[i][1] = k THEN <<k, v>> ELSE m[i]]
    ELSE Append(m, <<k, v>>)
\* (map.get(k) || 0)
MapCount(m, k) == IF MapHas(m, k) THEN MapGet(m, k) ELSE 0

\* startDate and the dates setDate makes of it in n - 1 calls, n >= 1
RECURSIVE Dates(_, _, _)
Dates(zone, startDate, n) ==
    IF n = 1 THEN <<startDate>>
    ELSE LET half == Dates(zone, startDate, n \div 2) IN
         half \o Dates(zone, setNextDate(zone, half[Len(half)]), n - n \div 2)

\* while (currentDate <= now) { dailyStats.set(dateKey, 0); setDate(+1) }:
\* the entries the loop leaves in the Map.  A call of setDate adds 23 hours
\* or more, so the loop ends within days + 2 rounds; and currentDate only
\* grows, so a key that is in the Map already is the key set last, and
\* setting it again adds no entry.
DayLoop(zone, startDate, now, days) ==
    LET visited == SelectSeq(Dates(zone, startDate, days + 2),
                             LAMBDA currentDate : currentDate <= now)
        keys == [i \in 1..Len(visited) |->
                    <<toISODate(visited[i]),
                      IF i = 1 THEN -1 ELSE toISODate(visited[i - 1])>>]
        fresh == SelectSeq(keys, LAMBDA k : k[1] # k[2])
    IN [i \in 1..Len(fresh) |-> <<fresh[i][1], 0>>]

\* submissions.forEach: one more on the day of each submission
RECURSIVE CountDays(_, _)
CountDays(submissions, dailyStats) ==
    IF submissions = <<>> THEN dailyStats
    ELSE LET dateKey == toISODate(Head(submissions).submittedAt) IN
         CountDays(Tail(submissions),
                   MapSet(dailyStats, dateKey, MapCount(dailyStats, dateKey) + 1))

dailyStatsOf(zone, startDate, now, submissions) ==
    CountDays(submissions,
              DayLoop(zone, startDate, now, Ceil(now - startDate, DayHours)))

\* form.fields.forEach(field => fieldStats.set(field.id, {count: 0, ...}))
RECURSIVE FieldStatsInit(_, _)
FieldStatsInit(fields, fieldStats) ==
    IF fields = <<>> THEN fieldStats
    ELSE FieldStatsInit(Tail(fields),
             MapSet(fieldStats, Head(fields).id, [count |-> 0, values |-> <<>>]))

\* elements.join(', ')
RECURSIVE JoinComma(_)
JoinComma(a) ==
    IF a = <<>> THEN <<>>
    ELSE IF Len(a) = 1 THEN Chars(a[1])
    ELSE Chars(a[1]) \o <<",", " ">> \o JoinComma(Tail(a))

\* Array.isArray(value) ? value.join(', ') : value, as characters
Joined(value) == IF IsArray(value) THEN JoinComma(value.a) ELSE ToStringChars(value)

\* the body of submission.fields.forEach for one entry of a submission
CountEntryOfAnyField(fieldStats, entry) ==
    LET stats == IF MapHas(fieldStats, entry.fieldId)
                 THEN MapGet(fieldStats, entry.fieldId)
                 ELSE [count |-> 0, values |-> <<>>]
    IN MapSet(fieldStats, entry.fieldId,
              [count |-> stats.count + 1, values |-> stats.values])
CountEntry(fieldStats, entry) ==
    IF ~MapHas(fieldStats, entry.fieldId) THEN fieldStats
    ELSE LET stats == MapGet(fieldStats, entry.fieldId)
             value == Joined(entry.value)
         IN MapSet(fieldStats, entry.fieldId,
                [count |-> stats.count + 1,
                 values |-> IF Truthy(entry.value)
                            THEN MapSet(stats.values, value,
                                        MapCount(stats.values, value) + 1)
                            ELSE stats.values])

RECURSIVE CountEntries(_, _)
CountEntries(entries, fieldStats) ==
    IF entries = <<>> THEN fieldStats
    ELSE CountEntries(Tail(entries), CountEntry(fieldStats, Head(entries)))

RECURSIVE CountFields(_, _)
CountFields(submissions, fieldStats) ==
    IF submissions = <<>> THEN fieldStats
    ELSE CountFields(Tail(submissions),
                     CountEntries(Head(submissions).fields, fieldStats))

\* .sort((a, b) => b[1] - a[1]): stable, larger counts first
RECURSIVE SortByCount(_)
InsertByCount(sorted, e) ==
    LET before == {i \in 1..Len(sorted) : sorted[i][2] >= e[2]}
        n == Cardinality(before)
    IN SubSeq(sorted, 1, n) \o <<e>> \o SubSeq(sorted, n + 1, Len(sorted))
SortByCount(entries) ==
    IF entries = <<>> THEN <<>>
    ELSE InsertByCount(SortByCount(SubSeq(entries, 1, Len(entries) - 1)),
                       entries[Len(entries)])

\* .slice(0, 5)
TopValuesMax == 5

\* (num / den * 100).toFixed(2) and (num / den).toFixed(2) as hundredths,
\* rounded to the nearest
ToFixed2(num, den) == (200 * num + den) \div (2 * den)

\* Array.from(fieldStats.entries()).map(...)
fieldStatsArray(form, fieldStats) ==
    [i \in 1..Len(fieldStats) |->
        LET fieldId == fieldStats[i][1]
            stats == fieldStats[i][2]
            found == {j \in 1..Len(form.fields) : form.fields[j].id = fieldId}
            formField == form.fields[CHOOSE j \in found : \A k \in found : j <= k]
            sorted == SortByCount(stats.values)
        IN [fieldId |-> fieldId,
            label |-> IF found # {} /\ formField.label # ""
                      THEN formField.label ELSE fieldId,
            type |-> IF found # {} THEN formField.type ELSE "unknown",
            responseCount |-> stats.count,
            responseRate |-> IF form.submissions > 0
                             THEN <<ToFixed2(stats.count * 100, form.submissions)>>
                             ELSE <<>>,
            topValues |-> SubSeq(sorted, 1, Min(TopValuesMax, Len(sorted)))]]

fieldStatsOf(form, submissions) ==
    fieldStatsArray(form, CountFields(submissions, FieldStatsInit(form.fields, <<>>)))

\* Submission.find(query): the documents of the collection, in the order of
\* their ids, that satisfy the query
RECURSIVE FindSubmissions(_, _, _)
FindSubmissions(ids, formId, startDate) ==
    IF ids = {} THEN <<>>
    ELSE LET s == CHOOSE x \in ids : \A y \in ids : x <= y IN
         (IF subs[s].formId = formId /\ subs[s].submittedAt >= startDate
          THEN <<subs[s]>> ELSE <<>>)
         \o FindSubmissions(ids \ {s}, formId, startDate)

\* the response of GET /analytics/form/:formId, with the clock and the time
\* zone its handler ran under
AnalyticsData(formId, period, now, zone) ==
    LET form == forms[formId]
        startDate == now - PeriodDays(period) * DayHours
        submissions == FindSubmissions(DOMAIN subs, formId, startDate)
    IN [formId |-> formId,
        title |-> form.title,
        period |-> period,
        totalSubmissions |-> form.submissions,
        periodSubmissions |-> Len(submissions),
        dailyStats |-> dailyStatsOf(zone, startDate, now, submissions),
        fieldStats |-> fieldStatsOf(form, submissions),
        averageSubmissionsPerDay |->
            ToFixed2(Len(submissions), Ceil(now - startDate, DayHours))]

\* GET /analytics/form/:formId
GetFormAnalytics(formId, period, now, zone) ==
    /\ Ready
    /\ \A s \in DOMAIN subs : subs[s].submittedAt <= now
    /\ out' = IF ~Exists(formId)
              THEN Resp("analytics", formId, 404, "Form not found")
              ELSE [op |-> "analytics", id |-> formId, code |-> 200,
                    error |-> "", details |-> {}, made |-> 0, delta |-> {},
                    now |-> now, zone |-> zone,
                    data |-> AnalyticsData(formId, period, now, zone)]
    /\ UNCHANGED <<forms, nextFormId, subs, nextSubId, reqs>>
    /\ UNCHANGED client

\* The forms and the submissions the analytics read.  Every form and every
\* submission is one the handlers of forms.ts store: validateForm asks for
\* no distinct field ids, validateSubmission for no distinct fieldIds and
\* for no fieldId of the form.
AliasField == [id |-> "f1", type |-> "text", label |-> "Alias", required |-> FALSE]
AnalyticsFields == {<<NameField, ColorField>>, <<NameField, AliasField>>}
AnalyticsEntries ==
    { <<[fieldId |-> "f1", value |-> Str("Red"), fieldType |-> "text"]>>,
      <<[fieldId |-> "f1", value |-> Str("Red"), fieldType |-> "text"],
        [fieldId |-> "f1", value |-> Str("Blue"), fieldType |-> "text"]>>,
      <<[fieldId |-> "gone", value |-> Str("Red"), fieldType |-> "text"]>>,
      <<[fieldId |-> "f2", value |-> Arr(<<"Red", "Blue">>), fieldType |-> "checkbox"]>> }
NowHours == {Today * DayHours + 1, Today * DayHours + 23}
SubmittedHours ==
    { Today * DayHours, (Today - 3) * DayHours + 5,
      (Today - 7) * DayHours + 1, (Today - 40) * DayHours }
AnalyticsSubs ==
    { [formId |-> 1, fields |-> es, submittedAt |-> t] :
        es \in AnalyticsEntries, t \in SubmittedHours }

InitAnalytics ==
    /\ \E n \in 0..MaxSubs :
         /\ subs \in [1..n -> AnalyticsSubs]
         /\ nextSubId = n + 1
         /\ \E fs \in AnalyticsFields :
              forms = [f \in {1} |->
                  [PublishUpdate(ApplyBody(FormDefaults,
                       [title |-> Title, fields |-> fs,
                        settings |-> [submissionLimit |-> <<>>]]))
                   EXCEPT !.submissions = n]]
    /\ nextFormId = 2
    /\ reqs = [r \in Reqs |-> IdleReq]
    /\ out = NoResponse
    /\ builder = NewForm
    /\ probe = NoProbe

NextAnalytics ==
    \/ \E f \in FormIds, period \in Periods, now \in NowHours, zone \in TimeZones :
          GetFormAnalytics(f, period, now, zone)
    \/ Respond

SpecAnalytics == InitAnalytics /\ [][NextAnalytics]_vars

\* ---------------------------------- CSV export (routes/analytics.ts:166-231)
\* the decimal digit n, and the texts of an ObjectId and of a Date: what
\* matters of them is that they hold no comma, quote or line break
Digit(n) == <<"0", "1", "2", "3", "4", "5", "6", "7", "8", "9">>[n + 1]
\* submission._id.toString()
IdChars(id) == <<"i", "d", Digit(id)>>
\* submission.metadata.submittedAt.toISOString()
IsoChars(t) == <<"T", Digit(t)>>

\* the value of row[label] after the assignment of a field's value: whether
\* it is truthy, and the text String(value) makes of it
RowValue(value) ==
    IF IsArray(value)
    THEN [truthy |-> JoinComma(value.a) # <<>>, text |-> JoinComma(value.a)]
    ELSE [truthy |-> Truthy(value), text |-> ToStringChars(value)]
RowText(cs) == [truthy |-> cs # <<>>, text |-> cs]

\* submission.fields.forEach: row[label] = value, a row being a Map of its
\* keys in insertion order
RECURSIVE AddFieldValues(_, _, _)
AddFieldValues(form, entries, row) ==
    IF entries = <<>> THEN row
    ELSE LET field == Head(entries)
             found == {j \in 1..Len(form.fields) : form.fields[j].id = field.fieldId}
             formField == form.fields[CHOOSE j \in found : \A k \in found : j <= k]
             label == IF found # {} /\ formField.label # ""
                      THEN formField.label ELSE field.fieldId
         IN AddFieldValues(form, Tail(entries),
                           MapSet(row, label, RowValue(field.value)))

\* submissions.map: the row of one submission
CsvRow(form, id, submission) ==
    AddFieldValues(form, submission.fields,
        << <<"Submission ID", RowText(IdChars(id))>>,
           <<"Submitted At", RowText(IsoChars(submission.submittedAt))>>,
           <<"IP Address", RowText(submission.ipAddress)>>,
           <<"User Agent", RowText(submission.userAgent)>>,
           <<"Status", RowText(Chars(submission.status))>> >>)

\* Submission.find({ formId }).sort({ 'metadata.submittedAt': -1 }): the ids
\* of the form's submissions, latest first
RECURSIVE LatestFirst(_)
LatestFirst(ids) ==
    IF ids = {} THEN <<>>
    ELSE LET s == CHOOSE x \in ids :
                    \A y \in ids : subs[x].submittedAt >= subs[y].submittedAt
         IN <<s>> \o LatestFirst(ids \ {s})

\* parts.join(separator)
RECURSIVE JoinWith(_, _)
JoinWith(parts, separator) ==
    IF parts = <<>> THEN <<>>
    ELSE IF Len(parts) = 1 THEN parts[1]
    ELSE parts[1] \o <<separator>> \o JoinWith(Tail(parts), separator)

\* String(value).replace(/"/g, '""')
RECURSIVE ReplaceQuotes(_)
ReplaceQuotes(cs) ==
    IF cs = <<>> THEN <<>>
    ELSE (IF Head(cs) = "\"" THEN <<"\"", "\"">> ELSE <<Head(cs)>>)
         \o ReplaceQuotes(Tail(cs))

\* `"${String(row[header] || '').replace(/"/g, '""')}"`
CsvCell(row, header) ==
    LET value == IF MapHas(row, header) /\ MapGet(row, header).truthy
                 THEN MapGet(row, header).text ELSE <<>>
    IN <<"\"">> \o ReplaceQuotes(value) \o <<"\"">>

\* [headers.join(','), ...csvData.map(...)].join('\n')
CsvContent(headers, csvData) ==
    JoinWith(
        <<JoinWith([i \in 1..Len(headers) |-> Chars(headers[i])], ",")>>
        \o [r \in 1..Len(csvData) |->
               JoinWith([i \in 1..Len(headers) |-> CsvCell(csvData[r], headers[i])],
                        ",")],
        "\n")

\* the text 'No submissions found'
NoSubmissionsFound ==
    <<"N", "o", " ", "s", "u", "b", "m", "i", "s", "s", "i", "o", "n", "s",
      " ", "f", "o", "u", "n", "d">>

\* GET /analytics/form/:formId/export
ExportCsv(formId, format) ==
    /\ Ready
    /\ out' =
         IF ~Exists(formId)
         THEN Resp("export", formId, 404, "Form not found")
         ELSE IF format # "csv"
         THEN Resp("export", formId, 400, "Unsupported export format")
         ELSE LET form == forms[formId]
                  submissions ==
                      LatestFirst({s \in DOMAIN subs : subs[s].formId = formId})
                  csvData == [r \in 1..Len(submissions) |->
                                 CsvRow(form, submissions[r], subs[submissions[r]])]
                  headers == IF Len(csvData) > 0
                             THEN [i \in 1..Len(csvData[1]) |-> csvData[1][i][1]]
                             ELSE <<>>
              IN [op |-> "export", id |-> formId, code |-> 200,
                  error |-> "", details |-> {}, made |-> 0, delta |-> {},
                  submissions |-> submissions,
                  headers |-> headers,
                  csvData |-> csvData,
                  text |-> IF Len(csvData) > 0
                           THEN CsvContent(headers, csvData)
                           ELSE NoSubmissionsFound]
    /\ UNCHANGED <<forms, nextFormId, subs, nextSubId, reqs>>
    /\ UNCHANGED client

\* The forms and the submissions the export reads: labels and values are
\* free text (validateForm asks for a label that is not empty, and
\* validateSubmission for a value that is not empty), a submission holds
\* values for any of the fields, and no two are of the same instant.
CommaField ==
    [id |-> "f2", type |-> "text", label |-> "Name, first", required |-> FALSE]
ExportFields == {<<NameField, ColorField>>, <<NameField, CommaField>>}
ExportEntries ==
    { <<[fieldId |-> "f1", value |-> Str("Smith, \"Jr.\""), fieldType |-> "text"]>>,
      <<[fieldId |-> "f1", value |-> Str("Red"), fieldType |-> "text"],
        [fieldId |-> "f2", value |-> Arr(<<"Red", "Blue">>), fieldType |-> "checkbox"]>>,
      <<[fieldId |-> "f2", value |-> Str("a\nb"), fieldType |-> "text"]>>,
      <<[fieldId |-> "f1", value |-> Num(0), fieldType |-> "text"]>> }
ExportSubs ==
    { [formId |-> 1, fields |-> es, submittedAt |-> t,
       ipAddress |-> Chars("::1"), userAgent |-> <<>>, status |-> "pending"] :
        es \in ExportEntries, t \in 1..MaxSubs }

InitExport ==
    /\ \E n \in 0..MaxSubs :
         /\ subs \in [1..n -> ExportSubs]
         /\ \A s, t \in 1..n : s # t => subs[s].submittedAt # subs[t].submittedAt
         /\ nextSubId = n + 1
         /\ \E fs \in ExportFields :
              forms = [f \in {1} |->
                  [PublishUpdate(ApplyBody(FormDefaults,
                       [title |-> Title, fields |-> fs,
                        settings |-> [submissionLimit |-> <<>>]]))
                   EXCEPT !.submissions = n]]
    /\ nextFormId = 2
    /\ reqs = [r \in Reqs |-> IdleReq]
    /\ out = NoResponse
    /\ builder = NewForm
    /\ probe = NoProbe

NextExport ==
    \/ \E f \in FormIds, format \in {"csv", "json"} : ExportCsv(f, format)
    \/ Respond

SpecExport == InitExport /\ [][NextExport]_vars

\* ------------------------- field configuration (FieldConfigPanel.tsx)
MaxOptions == 2         \* options of a field

\* `Option ${n}`
OptionName(n) == <<"Option", n>>

\* optional.value || [] for an optional attribute (<<>>: undefined)
OrEmpty(optional) == IF optional = <<>> THEN <<>> ELSE optional[1]

\* { ...field, ...updates }
Merge(field, updates) ==
    [k \in DOMAIN field \cup DOMAIN updates |->
        IF k \in DOMAIN updates THEN updates[k] ELSE field[k]]

\* FormBuilder.tsx handleUpdateField: the fields setForm leaves
handleUpdateField(fieldId, updates) ==
    [i \in 1..Len(builder.fields) |->
        IF builder.fields[i].id = fieldId
        THEN Merge(builder.fields[i], updates) ELSE builder.fields[i]]

\* The builder page with its panel: selectedField is the state of
\* FormBuilder (<<>>: null), localField the state of the mounted
\* FieldConfigPanel (<<>>: no panel is mounted).
Panel(selectedField, localField) ==
    [fn |-> "FieldConfigPanel", selectedField |-> selectedField,
     localField |-> localField]
PanelOpen == probe.fn = "FieldConfigPanel" /\ probe.selectedField # <<>>

\* onClick={() => setSelectedField(field)} on a field of the form.  The
\* panel is rendered without a key: it mounts, with useState(field), when
\* selectedField was null, and else stays mounted with the state it has.
selectField(field) ==
    /\ probe.fn = "FieldConfigPanel"
    /\ probe' = Panel(<<field>>,
                      IF probe.selectedField = <<>> THEN <<field>>
                      ELSE probe.localField)
    /\ UNCHANGED <<server, builder>>

\* onClose={() => setSelectedField(null)}: the panel unmounts
closePanel ==
    /\ PanelOpen
    /\ probe' = Panel(<<>>, <<>>)
    /\ UNCHANGED <<server, builder>>

\* handleUpdate(updates): setLocalField({...localField, ...updates}) and
\* onUpdate(updates), which is handleUpdateField(selectedField.id, updates)
handleUpdate(updates) ==
    /\ probe' = Panel(probe.selectedField,
                      <<Merge(probe.localField[1], updates)>>)
    /\ builder' = [builder EXCEPT !.fields =
                      handleUpdateField(probe.selectedField[1].id, updates)]
    /\ UNCHANGED server

\* the options are shown for a select, radio or checkbox localField
OptionsShown ==
    PanelOpen /\ probe.localField[1].type \in {"select", "radio", "checkbox"}

addOption ==
    /\ OptionsShown
    /\ Len(OrEmpty(probe.localField[1].options)) < MaxOptions
    /\ LET options == OrEmpty(probe.localField[1].options)
           newOptions == Append(options, OptionName(Len(options) + 1))
       IN handleUpdate([options |-> <<newOptions>>])

\* the button of an option is disabled when it is the only one
removeOption(index) ==
    /\ OptionsShown
    /\ Len(OrEmpty(probe.localField[1].options)) # 1
    /\ index \in 0..(Len(OrEmpty(probe.localField[1].options)) - 1)
    /\ LET options == OrEmpty(probe.localField[1].options)
           newOptions == SpliceOut(options, index)
       IN handleUpdate([options |-> <<newOptions>>])

\* a form the builder has loaded: two fields with options and one without
PanelFields ==
    << [id |-> "f1", type |-> "select", label |-> <<"New", "select", "Field">>,
        order |-> 0, options |-> <<<<OptionName(1), OptionName(2)>>>>],
       [id |-> "f2", type |-> "radio", label |-> <<"New", "radio", "Field">>,
        order |-> 1, options |-> <<<<OptionName(1)>>>>],
       [id |-> "f3", type |-> "text", label |-> <<"New", "text", "Field">>,
        order |-> 2, options |-> <<>>] >>

InitPanel ==
    /\ forms = <<>>
    /\ nextFormId = 1
    /\ subs = <<>>
    /\ nextSubId = 1
    /\ reqs = [r \in Reqs |-> IdleReq]
    /\ out = NoResponse
    /\ builder = [fields |-> PanelFields, made |-> Len(PanelFields)]
    /\ probe = Panel(<<>>, <<>>)

NextPanel ==
    \/ \E i \in 1..Len(builder.fields) : selectField(builder.fields[i])
    \/ closePanel
    \/ addOption
    \/ \E index \in 0..(MaxOptions - 1) : removeOption(index)

SpecPanel == InitPanel /\ [][NextPanel]_vars

\* ------------------------------ a session of the public form (PublicForm.tsx)
\* the page of a form with steps: formData and errors are keyed by field
\* id; sent is <<formData>>, the form data of the request handleSubmit
\* made last, and <<>> before the first one
Session(form, currentStep, formData, errors, sent) ==
    [ fn |-> "PublicForm", form |-> form, currentStep |-> currentStep,
      formData |-> formData, errors |-> errors, sent |-> sent ]

CurrentFields == getFieldsForStep(probe.form, probe.currentStep)

\* renderField: the values the control of a field hands to handleInputChange
\* when formData holds value for it
InputsOf(field, value) ==
    CASE field.type \in {"text", "email", "textarea"} ->
            {Str(""), Str("Red"), Str("a@b.c")}
      [] field.type = "select" ->
            {Str("")} \cup {Str(OrEmpty(field.options)[i]) :
                               i \in 1..Len(OrEmpty(field.options))}
      [] field.type = "radio" ->
            {Str(OrEmpty(field.options)[i]) : i \in 1..Len(OrEmpty(field.options))}
      [] field.type = "checkbox" ->
            LET currentValues == IF IsArray(value) THEN value.a ELSE <<>> IN
            { IF \E j \in 1..Len(currentValues) : currentValues[j] = option
              THEN Arr(SelectSeq(currentValues, LAMBDA v : v # option))
              ELSE Arr(Append(currentValues, option)) :
                option \in {OrEmpty(field.options)[i] :
                              i \in 1..Len(OrEmpty(field.options))} }
      [] field.type = "file" -> {File, Undefined}

\* onChange of the control of a field of the step shown
changeInput(field, value) ==
    /\ probe.fn = "PublicForm"
    /\ \E i \in 1..Len(CurrentFields) : CurrentFields[i] = field
    /\ value \in InputsOf(field, ValueOf(probe.formData, field.id))
    /\ probe' = Session(probe.form, probe.currentStep,
                    Put(probe.formData, field.id, value),
                    IF field.id \in DOMAIN probe.errors
                       /\ probe.errors[field.id] # NoError
                    THEN Put(probe.errors, field.id, NoError)
                    ELSE probe.errors,
                    probe.sent)
    /\ UNCHANGED <<server, builder>>

\* the step shown is the last one: the page shows the Submit button there
\* and the Next button on the steps before
OnLastStep ==
    ~(IsMultiStep(probe.form)
      /\ probe.currentStep < Len(StepsOf(probe.form)) - 1)

\* the Next button: handleNext, which moves on when validateStep finds no
\* error among the fields shown
clickNext ==
    /\ probe.fn = "PublicForm"
    /\ ~OnLastStep
    /\ LET newErrors == StepErrors(CurrentFields, probe.formData) IN
       probe' = Session(probe.form,
                    IF newErrors = <<>> THEN probe.currentStep + 1
                    ELSE probe.currentStep,
                    probe.formData, newErrors, probe.sent)
    /\ UNCHANGED <<server, builder>>

\* the Previous button: handlePrevious
clickPrevious ==
    /\ probe.fn = "PublicForm"
    /\ IsMultiStep(probe.form)
    /\ probe.currentStep > 0
    /\ probe' = Session(probe.form, probe.currentStep - 1, probe.formData,
                        probe.errors, probe.sent)
    /\ UNCHANGED <<server, builder>>

\* onSubmit of the form: handleSubmit, which validates the fields shown
submitForm ==
    /\ LET newErrors == StepErrors(CurrentFields, probe.formData) IN
       probe' = Session(probe.form, probe.currentStep, probe.formData,
                    newErrors,
                    IF newErrors = <<>> THEN <<probe.formData>> ELSE probe.sent)
    /\ UNCHANGED <<server, builder>>

\* the Submit button (type="submit")
clickSubmit ==
    /\ probe.fn = "PublicForm"
    /\ OnLastStep
    /\ submitForm

\* Enter in a text or email input.  The Next and Previous buttons are
\* type="button", so before the last step the form has no submit button,
\* and the browser then submits the form on Enter when the input is the
\* only text control the form shows (HTML: implicit submission).
pressEnter ==
    /\ probe.fn = "PublicForm"
    /\ ~OnLastStep
    /\ Cardinality({i \in 1..Len(CurrentFields) :
                       CurrentFields[i].type \in {"text", "email"}}) = 1
    /\ submitForm

\* the forms of the sessions: two steps of one field, two steps of two and
\* one fields, and one step
SessionField(id, type, required) ==
    [ id |-> id, type |-> type, label |-> "Q", required |-> required,
      options |-> IF type \in {"select", "radio", "checkbox"}
                  THEN <<<<"Red", "Blue">>>> ELSE <<>>,
      validation |-> [minLength |-> 0, maxLength |-> 0] ]
SessionForms ==
    { [ fields |-> <<SessionField("f1", "text", TRUE),
                     SessionField("f2", "select", TRUE)>>,
        isMultiStep |-> TRUE, steps |-> <<1, 2>> ],
      [ fields |-> <<SessionField("f1", "text", TRUE),
                     SessionField("f2", "email", FALSE),
                     SessionField("f3", "checkbox", TRUE)>>,
        isMultiStep |-> TRUE, steps |-> <<1, 2>> ],
      [ fields |-> <<SessionField("f1", "email", TRUE),
                     SessionField("f2", "select", TRUE)>>,
        isMultiStep |-> FALSE, steps |-> <<>> ] }

InitSession ==
    /\ forms = <<>>
    /\ nextFormId = 1
    /\ subs = <<>>
    /\ nextSubId = 1
    /\ reqs = [r \in Reqs |-> IdleReq]
    /\ out = NoResponse
    /\ builder = NewForm
    /\ \E form \in SessionForms : probe = Session(form, 0, <<>>, <<>>, <<>>)

NextSession ==
    \/ \E i \in 1..Len(probe.form.fields), value \in ProbeValues :
          changeInput(probe.form.fields[i], value)
    \/ clickNext
    \/ clickPrevious
    \/ clickSubmit
    \/ pressEnter

SpecSession == InitSession /\ [][NextSession]_vars

\* the sessions in which the form is submitted by its Submit button only
NextButtons ==
    \/ \E i \in 1..Len(probe.form.fields), value \in ProbeValues :
          changeInput(probe.form.fields[i], value)
    \/ clickNext
    \/ clickPrevious
    \/ clickSubmit

SpecButtons == InitSession /\ [][NextButtons]_vars

\* ------------------------------------------------------------ properties
Quiescent == \A r \in Reqs : reqs[r].pc = "idle"

\* the Submission records of form f, and the requests between their write
\* of a record and their write of the counter
Records(f) == Cardinality({s \in DOMAIN subs : subs[s].formId = f})
PendingInc(f) ==
    Cardinality({r \in Reqs : reqs[r].pc = "inc" /\ reqs[r].id = f})
PendingDec(f) ==
    Cardinality({r \in Reqs : reqs[r].pc = "dec" /\ reqs[r].snap[1].formId = f})

\* a handler step that answers with operation op
Answers(op) == out = NoResponse /\ out'.op = op
\* slot r takes a request that went past its lookup
Accepts(r) == reqs[r].pc = "idle" /\ reqs'[r].pc = "save"

IsDraft(fs, id) == id \in DOMAIN fs /\ fs[id].status = "draft"

\* C1 as stated: every submit request to an existing draft form is answered
\* 400 'Form is not published' and writes nothing.
C1_DraftAlwaysNotPublished ==
    [][\A r \in Reqs, body \in SubmitBodies, h \in {0, SubmissionRateMax} :
        (SubmitArrive(r, body, h) /\ IsDraft(forms, body.formId))
        => /\ out'.code = 400 /\ out'.error = "Form is not published"
           /\ reqs' = reqs /\ subs' = subs /\ forms' = forms]_vars

\* C1 amended: a submit request to an existing draft form is never accepted
\* and writes nothing; it is answered 400 'Form is not published' when it
\* passed the rate limiter and the request-shape validation, and 429 or
\* 400 'Validation failed' when it did not.
C1_DraftNeverAccepted ==
    [][\A r \in Reqs, body \in SubmitBodies, h \in {0, SubmissionRateMax} :
        (SubmitArrive(r, body, h) /\ IsDraft(forms, body.formId))
        => /\ reqs' = reqs /\ subs' = subs /\ forms' = forms
           /\ out'.op = "submit" /\ out'.made = 0 /\ out'.delta = {}
           /\ IF RateLimited(h) THEN out'.code = 429
              ELSE IF ValidateSubmission(body) # {}
              THEN out'.code = 400 /\ out'.error = "Validation failed"
              ELSE out'.code = 400 /\ out'.error = "Form is not published"]_vars

C1_Witness ==
    /\ out.op = "submit" /\ out.error = "Form is not published"
    /\ IsDraft(forms, out.id)
    /\ forms[out.id].submissions > 0

\* C2: submit requests running concurrently lose no increment: in every
\* interleaving the counter of a form is the number of its Submission
\* records less the accepted requests that have not yet incremented it, so
\* once all have completed it is exactly the number of accepted requests
\* higher than at the start (0); every 201 is the answer of a request that
\* saved one record and added exactly 1 to the counter of its form.
C2_NoLostIncrement ==
    /\ \A f \in DOMAIN forms : forms[f].submissions = Records(f) - PendingInc(f)
    /\ out.code = 201
        => /\ out.made \in DOMAIN subs /\ subs[out.made].formId = out.id
           /\ out.delta = {<<out.id, 1>>}

\* two requests overlapped (the one that saved first was answered last) and
\* both have completed
C2_Witness ==
    /\ Quiescent
    /\ out.code = 201 /\ out.made = 1
    /\ forms[out.id].submissions = 2
    /\ Records(out.id) = 2

\* C3 as stated: with no request in flight the counter of every form is the
\* number of its Submission records.
C3_CounterMatchesRecords ==
    Quiescent => \A f \in DOMAIN forms : forms[f].submissions = Records(f)

\* C4: a delete-submission request decrements a counter iff it removed a
\* record: each removal is followed by one decrement of the owning form
\* only (a form that has been deleted has no counter left), and a request
\* for an id that is gone is answered 'Submission not found' and writes no
\* counter.
C4_DeleteDecrementsOnce ==
    /\ \A f \in DOMAIN forms :
          forms[f].submissions = Records(f) - PendingInc(f) + PendingDec(f)
    /\ out.op = "deleteSubmission"
        => \/ /\ out.code = 404 /\ out.error = "Submission not found"
              /\ out.delta = {}
           \/ /\ out.code = 200 /\ out.id \notin DOMAIN subs
              /\ Cardinality(out.delta) <= 1
              /\ \A w \in out.delta : w[2] = -1

\* the loser of two concurrent deletes of one Submission is answered while
\* the winner has removed the record and not yet decremented
C4_Witness ==
    /\ out.op = "deleteSubmission" /\ out.code = 404
    /\ \E r \in Reqs : reqs[r].pc = "dec" /\ reqs[r].id = out.id

\* C5 as stated: at the moment a Submission is persisted its form exists
\* and is published.
C5_PersistOnlyPublished ==
    [][\A r \in Reqs :
        (reqs[r].pc = "save" /\ reqs'[r].pc = "inc")
        => reqs[r].id \in DOMAIN forms /\ forms[reqs[r].id].status = "published"]_vars

\* C6 as stated: a submit request that arrives when the counter of its form
\* has reached settings.submissionLimit is not accepted.
LimitReached(doc) ==
    /\ doc.settings.submissionLimit # <<>>
    /\ doc.submissions >= doc.settings.submissionLimit[1]

C6_LimitEnforced ==
    [][\A r \in Reqs : Accepts(r) => ~LimitReached(forms[reqs'[r].id])]_vars

\* C7 as stated: an accepted submit request holds a non-empty value for
\* every required field of the form definition.
RequiredAnswered(doc, fields) ==
    \A i \in 1..Len(doc.fields) :
        doc.fields[i].required
        => \E j \in 1..Len(fields) :
              fields[j].fieldId = doc.fields[i].id /\ fields[j].value # ""

C7_RequiredFieldsValidated ==
    [][\A r \in Reqs :
        Accepts(r) => RequiredAnswered(forms[reqs'[r].id], reqs'[r].body)]_vars

\* C8: a submit request answered with not-found, not-published or a
\* validation error is answered by its first step, before any write: that
\* step leaves both collections as they are, and the request held no slot
\* and wrote nothing before it.
C8_ChecksBeforeWrites ==
    [][(Answers("submit") /\ out'.code \in {400, 404})
        => /\ subs' = subs /\ nextSubId' = nextSubId /\ forms' = forms
           /\ reqs' = reqs
           /\ out'.made = 0 /\ out'.delta = {}]_vars

C8_Witness ==
    /\ out.op = "submit" /\ out.code = 400 /\ out.error = "Validation failed"
    /\ Cardinality(out.details) = 2
    /\ \E r \in Reqs : reqs[r].pc = "inc"

\* C9: PATCH publish on an existing form sets status and publishedAt and
\* leaves its other paths, every other form and every Submission as they
\* are; on an id that does not exist it answers 404 and changes nothing.
C9_PublishFrame ==
    [][Answers("publish")
        => LET id == out'.id IN
           /\ subs' = subs
           /\ DOMAIN forms' = DOMAIN forms
           /\ \A g \in DOMAIN forms \ {id} : forms'[g] = forms[g]
           /\ IF id \in DOMAIN forms
              THEN /\ out'.code = 200
                   /\ forms'[id].status = "published"
                   /\ forms'[id].publishedAt = ADate
                   /\ forms'[id].title = forms[id].title
                   /\ forms'[id].fields = forms[id].fields
                   /\ forms'[id].settings = forms[id].settings
                   /\ forms'[id].submissions = forms[id].submissions
              ELSE out'.code = 404 /\ forms' = forms]_vars

C9_Witness ==
    /\ out.op = "publish" /\ out.code = 200
    /\ forms[out.id].status = "published" /\ forms[out.id].publishedAt = ADate
    /\ forms[out.id].submissions > 0
    /\ subs # <<>>

\* C10 as stated: PATCH unpublish on an existing form sets status to draft,
\* leaves the form without publishedAt and leaves fields and counter.
C10_UnpublishClears ==
    [][(Answers("unpublish") /\ out'.id \in DOMAIN forms)
        => LET id == out'.id IN
           /\ forms'[id].status = "draft"
           /\ forms'[id].publishedAt = NoDate
           /\ forms'[id].fields = forms[id].fields
           /\ forms'[id].submissions = forms[id].submissions]_vars

\* C11: POST duplicate on an existing form builds, from the original as it
\* is read, a document with the original's fields and settings, status
\* draft and counter 0, and saves it under an id no form has; the original,
\* every other form and every Submission stay as they are.
C11_DuplicateFrame ==
    [][\A r \in Reqs :
        /\ (reqs[r].pc = "idle" /\ reqs'[r].pc = "dupsave")
            => LET id == reqs'[r].id
                   d == reqs'[r].snap[1] IN
               /\ id \in DOMAIN forms
               /\ d.fields = forms[id].fields
               /\ d.settings = forms[id].settings
               /\ d.status = "draft" /\ d.submissions = 0
               /\ forms' = forms /\ subs' = subs
        /\ (reqs[r].pc = "dupsave" /\ reqs'[r].pc = "idle")
            => LET n == out'.made IN
               /\ out'.op = "duplicate" /\ out'.code = 201
               /\ n \notin DOMAIN forms
               /\ DOMAIN forms' = DOMAIN forms \cup {n}
               /\ forms'[n] = reqs[r].snap[1]
               /\ \A g \in DOMAIN forms : forms'[g] = forms[g]
               /\ subs' = subs]_vars

\* a published form with counter 1 has been duplicated
C11_Witness ==
    /\ out.op = "duplicate" /\ out.code = 201
    /\ out.id \in DOMAIN forms /\ out.made \in DOMAIN forms
    /\ out.made # out.id
    /\ forms[out.id].status = "published" /\ forms[out.id].submissions = 1
    /\ forms[out.made].status = "draft" /\ forms[out.made].submissions = 0
    /\ forms[out.made].fields = forms[out.id].fields
    /\ forms[out.made].settings = forms[out.id].settings

\* C12 as stated: a form created through POST /forms is in status draft
\* with counter 0, whatever the accepted body holds.
C12_CreatedDraftZero ==
    [][(Answers("create") /\ out'.code = 201)
        => /\ forms'[out'.id].status = "draft"
           /\ forms'[out'.id].submissions = 0]_vars

\* C13 as stated: after any sequence of add, delete, duplicate and
\* drag-reorder the order of every field is its index in the list (so the
\* orders are 0..n-1 without gap or repeat).
C13_OrderIsIndex ==
    \A i \in 1..Len(builder.fields) : builder.fields[i].order = i - 1

\* the groups of steps 0..k-1 of a form, one after the other
RECURSIVE StepGroups(_, _)
StepGroups(form, k) ==
    IF k = 0 THEN <<>>
    ELSE StepGroups(form, k - 1) \o getFieldsForStep(form, k - 1)

\* C14: for a multi-step form with a non-empty step list the groups of
\* steps 0..len(steps)-1, concatenated in step order, are the field list,
\* and no field is in two groups.
C14_StepsPartitionFields ==
    (probe.fn = "getFieldsForStep" /\ IsMultiStep(probe.form))
    => LET form == probe.form
           k == Len(StepsOf(form)) IN
       /\ StepGroups(form, k) = form.fields
       /\ \A i, j \in 0..(k - 1) :
            i # j => \A x \in 1..Len(getFieldsForStep(form, i)),
                        y \in 1..Len(getFieldsForStep(form, j)) :
                        getFieldsForStep(form, i)[x] # getFieldsForStep(form, j)[y]

\* the last step of 5 fields over 4 steps is shown: groups 2, 2, 1, 0
C14_Witness ==
    /\ probe.fn = "getFieldsForStep" /\ IsMultiStep(probe.form)
    /\ Len(probe.form.fields) = 5 /\ Len(probe.form.steps) = 4
    /\ probe.currentStep = 3
    /\ probe.currentFields = <<>>

\* C15: step i shows exactly the fields at the indices
\* [i*fieldsPerStep, (i+1)*fieldsPerStep) that exist, in order, with
\* fieldsPerStep = ceil(len(fields) / len(steps)); 7 fields over 3 steps
\* give 3, 3 and 1 fields.
C15_StepShowsSlice ==
    (probe.fn = "getFieldsForStep" /\ IsMultiStep(probe.form))
    => LET fields == probe.form.fields
           n == Len(fields)
           k == Len(probe.form.steps)
           per == IF n % k = 0 THEN n \div k ELSE n \div k + 1
           lo == probe.currentStep * per
           shown == {x \in 0..(n - 1) : lo <= x /\ x < lo + per} IN
       /\ Len(probe.currentFields) = Cardinality(shown)
       /\ \A y \in 1..Len(probe.currentFields) :
            probe.currentFields[y] = fields[lo + y]
       /\ (n = 7 /\ k = 3)
            => Len(probe.currentFields) =
                 CASE probe.currentStep = 0 -> 3
                   [] probe.currentStep = 1 -> 3
                   [] probe.currentStep = 2 -> 1

\* the third step of 7 fields over 3 steps shows the seventh field alone
C15_Witness ==
    /\ probe.fn = "getFieldsForStep" /\ IsMultiStep(probe.form)
    /\ Len(probe.form.fields) = 7 /\ Len(probe.form.steps) = 3
    /\ probe.currentStep = 2
    /\ probe.currentFields = <<[id |-> 7]>>

\* the field of the page, the value entered for it and the verdict of the
\* last validateStep
Checked == probe.fn = "validateField" /\ probe.checked
TheField == probe.form.fields[1]
TheValue == ValueOf(probe.formData, TheField.id)
TheError ==
    IF TheField.id \in DOMAIN probe.errors THEN probe.errors[TheField.id] ELSE NoError

\* absent per the presence rule: undefined, null, '' and []
IsAbsent(v) == v \in {Undefined, Null, Str(""), Arr(<<>>)}

\* C16 as stated: a required field of any type with an absent or empty
\* value (undefined, null, '', []) is Invalid with '{label} is required'.
C16_RequiredRejectsAbsent ==
    (Checked /\ TheField.required /\ IsAbsent(TheValue))
    => TheError = Err(TheField, "is required", 0)

\* C17 as stated: 0 and false are not empty: for a required field they
\* never give '{label} is required'.
C17_ZeroFalseNotEmpty ==
    (Checked /\ TheField.required /\ TheValue \in {Num(0), Bool(FALSE)})
    => TheError # Err(TheField, "is required", 0)

\* C18 as stated: for a checkbox field a present value that is no array, or
\* an array with an element outside the field's options, is rejected with
\* '{label} has an invalid option selected'.
C18_CheckboxRejectsInvalid ==
    (/\ Checked /\ TheField.type = "checkbox" /\ TheField.options # <<>>
     /\ ~IsAbsent(TheValue)
     /\ \/ TheValue.t # "array"
        \/ \E i \in 1..Len(TheValue.a) :
              \A j \in 1..Len(TheField.options[1]) :
                  TheField.options[1][j] # TheValue.a[i])
    => TheError = Err(TheField, "has an invalid option selected", 0)

\* C19 as stated: for a select or radio field a present value is Valid iff
\* it is one of the field's options, and Invalid with
\* '{label} has an invalid option selected' otherwise.
C19_SelectMemberOfOptions ==
    (/\ Checked /\ TheField.type \in {"select", "radio"} /\ TheField.options # <<>>
     /\ ~IsAbsent(TheValue))
    => IF TheValue.t = "string"
          /\ \E j \in 1..Len(TheField.options[1]) :
                TheField.options[1][j] = TheValue.s
       THEN TheError = NoError
       ELSE TheError = Err(TheField, "has an invalid option selected", 0)

\* the store after the form of the page was saved and published, and the
\* server's verdict on a submission body: accepted when no check of the
\* handler and no schema validator refuses it
StoreOf(form) ==
    [id \in {1} |-> PublishUpdate(ApplyBody(FormDefaults,
                        [title |-> Title, fields |-> form.fields]))]
ServerAccepts(form, body) ==
    /\ SubmitLookupResult(StoreOf(form), body, 0) = NoResponse
    /\ SubmissionSchemaOk(body.fields)

\* C20 as stated: the server accepts a set of field values exactly when
\* the client-side validation accepts it (whichever release of the request
\* validator the build has).
C20_SameVerdict ==
    Checked
    => \E body \in SubmissionOf(1, probe.form, probe.formData) :
          (probe.errors = <<>>) <=> ServerAccepts(probe.form, body)

\* C26 as stated: after any sequence of create, update, publish, unpublish
\* and duplicate a form has publishedAt set iff its status is published.
C26_PublishedAtIffPublished ==
    \A f \in DOMAIN forms :
        (forms[f].publishedAt = ADate) <=> (forms[f].status = "published")

\* C27 as stated: the submissions counter of a form is never negative, the
\* states between the awaits of concurrent requests included.
C27_CounterNotNegative ==
    \A f \in DOMAIN forms : forms[f].submissions >= 0

\* C28 as stated: with no request in flight every Submission refers to an
\* existing form.
C28_NoOrphanSubmission ==
    Quiescent => \A s \in DOMAIN subs : subs[s].formId \in DOMAIN forms

\* C21: the dailyStats of a form's analytics hold one entry for every UTC
\* calendar day from the day of startDate through the day of the request,
\* ascending without a gap or a repeat, each with the number of the period's
\* submissions of that day (0 for a day without one).
C21_DailyStatsDense ==
    (out.op = "analytics" /\ out.code = 200) =>
        LET data == out.data
            startDate == out.now - PeriodDays(data.period) * DayHours
            first == toISODate(startDate)
            last == toISODate(out.now)
        IN /\ Len(data.dailyStats) = last - first + 1
           /\ \A i \in 1..Len(data.dailyStats) :
                 /\ data.dailyStats[i][1] = first + i - 1
                 /\ data.dailyStats[i][2] =
                        Cardinality({s \in DOMAIN subs :
                            /\ subs[s].formId = out.id
                            /\ subs[s].submittedAt >= startDate
                            /\ toISODate(subs[s].submittedAt) = first + i - 1})

\* the submissions of form f that lie in the period of the response out
InPeriod(f) ==
    {s \in DOMAIN subs :
        /\ subs[s].formId = f
        /\ subs[s].submittedAt >= out.now - PeriodDays(out.data.period) * DayHours}
AnalyticsSent == out.op = "analytics" /\ out.code = 200

\* C22: fieldStats holds, for every field of the form, exactly one entry
\* with the field's id, and no entry with a fieldId that is no field of the
\* form; a submission whose fieldIds are none of the form's still counts in
\* periodSubmissions (the records of the period) and totalSubmissions (the
\* form's counter).
C22_FieldStatsOfFormFields ==
    AnalyticsSent =>
        LET fields == forms[out.id].fields
            fieldStats == out.data.fieldStats
        IN /\ \A i \in 1..Len(fields) :
                 Cardinality({j \in 1..Len(fieldStats) :
                                 fieldStats[j].fieldId = fields[i].id}) = 1
           /\ \A j \in 1..Len(fieldStats) :
                 \E i \in 1..Len(fields) : fields[i].id = fieldStats[j].fieldId
           /\ out.data.periodSubmissions = Cardinality(InPeriod(out.id))
           /\ out.data.totalSubmissions = forms[out.id].submissions

\* a response over a period with a submission that names only a fieldId the
\* form does not have
C22_Witness ==
    /\ AnalyticsSent
    /\ \E s \in InPeriod(out.id) :
          \A i \in 1..Len(subs[s].fields) :
             \A j \in 1..Len(forms[out.id].fields) :
                subs[s].fields[i].fieldId # forms[out.id].fields[j].id
    /\ out.data.periodSubmissions = Cardinality(DOMAIN subs)
    /\ out.data.periodSubmissions >= 1

\* C23: the responseCount of a field is the number of the period's
\* submissions that hold a non-empty value for the field, each submission
\* counted once, and so is at most periodSubmissions.
C23_ResponseCountPerSubmission ==
    AnalyticsSent =>
        \A j \in 1..Len(out.data.fieldStats) :
            LET stat == out.data.fieldStats[j] IN
            /\ stat.responseCount =
                  Cardinality({s \in InPeriod(out.id) :
                      \E i \in 1..Len(subs[s].fields) :
                          /\ subs[s].fields[i].fieldId = stat.fieldId
                          /\ Truthy(subs[s].fields[i].value)
                          /\ ~IsEmptyString(subs[s].fields[i].value)})
            /\ stat.responseCount <= out.data.periodSubmissions

ExportSent == out.op = "export" /\ out.code = 200 /\ Len(out.submissions) > 0
MetadataColumns ==
    <<"Submission ID", "Submitted At", "IP Address", "User Agent", "Status">>

\* C24: the export of a form with submissions has one data row per
\* submission of the form, and its columns are the five metadata columns
\* followed by one column per field of the form, named by the field's
\* label, whichever fields the submissions hold.
C24_ColumnsOfFormFields ==
    ExportSent =>
        LET fields == forms[out.id].fields IN
        /\ Len(out.csvData) = Cardinality({s \in DOMAIN subs : subs[s].formId = out.id})
        /\ Len(out.headers) = Len(MetadataColumns) + Len(fields)
        /\ SubSeq(out.headers, 1, Len(MetadataColumns)) = MetadataColumns
        /\ \A i \in 1..Len(fields) :
              \E j \in (Len(MetadataColumns) + 1)..Len(out.headers) :
                  out.headers[j] = fields[i].label

\* Standard CSV quoting (RFC 4180): a comma or a line break outside quotes
\* ends a cell or a record, a cell in quotes stands for its text with every
\* doubled quote read as one.
QuotesBefore(text, i) == Cardinality({j \in 1..(i - 1) : text[j] = "\""})
Breaks(text, lo, hi, separator) ==
    {i \in lo..hi : text[i] = separator /\ QuotesBefore(text, i) % 2 = 0}
Nth(B, k) == CHOOSE x \in B : Cardinality({y \in B : y < x}) = k - 1
\* the <<first, last>> positions of the pieces of lo..hi between the breaks B
Pieces(lo, hi, B) ==
    [k \in 1..(Cardinality(B) + 1) |->
        << IF k = 1 THEN lo ELSE Nth(B, k - 1) + 1,
           IF k = Cardinality(B) + 1 THEN hi ELSE Nth(B, k) - 1 >>]
RECURSIVE Undouble(_)
Undouble(cs) ==
    IF cs = <<>> THEN <<>>
    ELSE IF Len(cs) >= 2 /\ cs[1] = "\"" /\ cs[2] = "\""
    THEN <<"\"">> \o Undouble(SubSeq(cs, 3, Len(cs)))
    ELSE <<cs[1]>> \o Undouble(Tail(cs))
Unquote(cs) ==
    IF Len(cs) >= 2 /\ cs[1] = "\"" /\ cs[Len(cs)] = "\""
    THEN Undouble(SubSeq(cs, 2, Len(cs) - 1))
    ELSE cs
ParseCsv(text) ==
    LET records == Pieces(1, Len(text), Breaks(text, 1, Len(text), "\n")) IN
    [r \in 1..Len(records) |->
        LET cells == Pieces(records[r][1], records[r][2],
                            Breaks(text, records[r][1], records[r][2], ","))
        IN [c \in 1..Len(cells) |-> Unquote(SubSeq(text, cells[c][1], cells[c][2]))]]

\* the text of the value a row holds under a header ('' for none)
OriginalText(row, header) ==
    IF MapHas(row, header) THEN MapGet(row, header).text ELSE <<>>

\* C25: read back under standard CSV quoting, the exported text gives the
\* header cells and, for every row, the original text of every value,
\* commas, quotes and line breaks included.
C25_CellsRoundTrip ==
    ExportSent =>
        ParseCsv(out.text) =
            << [i \in 1..Len(out.headers) |-> Chars(out.headers[i])] >>
            \o [r \in 1..Len(out.csvData) |->
                   [i \in 1..Len(out.headers) |->
                       OriginalText(out.csvData[r], out.headers[i])]]

\* the results of adding an option to a field or removing one of its own
OptionEdits(field) ==
    LET options == OrEmpty(field.options) IN
    { [field EXCEPT !.options = <<Append(options, OptionName(Len(options) + 1))>>] }
    \cup { [field EXCEPT !.options = <<SpliceOut(options, index)>>] :
             index \in 0..(Len(options) - 1) }

\* C30: while the panel is open, an edit of the options changes the selected
\* field only, and what it writes is made of that field's own options: they
\* with one option added or with one of them removed.
C30_EditsFromSelectedField ==
    [][\A i \in 1..Len(builder.fields) :
          builder'.fields[i] # builder.fields[i] =>
              /\ PanelOpen
              /\ builder.fields[i].id = probe.selectedField[1].id
              /\ builder'.fields[i] \in OptionEdits(builder.fields[i])]_vars

\* C29: the form data a submission request is made of passes validateField
\* for every field of the form, on every step.
C29_SentOnlyWhenAllValid ==
    (probe.fn = "PublicForm" /\ probe.sent # <<>>) =>
        \A i \in 1..Len(probe.form.fields) :
            validateField(probe.form.fields[i],
                          ValueOf(probe.sent[1], probe.form.fields[i].id)) = NoError

====
